---- MODULE Spec2Model ----
(***************************************************************************)
(* A model of toshreplay (src/toshreplay.c): ingestion of a replay log     *)
(* into the operation queue, the dispatcher, the worker pool and the       *)
(* two-cursor merge that prints the report; and of the reader and writer   *)
(* threads of toshstomp (src/toshstomp.c) with the counters they share.    *)
(*                                                                         *)
(* Strings are sequences of one-character strings; a C pointer into a      *)
(* line is a 1-based index, Len(line) + 1 being the terminating NUL and 0  *)
(* being NULL.  A long long (hrtime_t, off_t) is a triple <<h, m, l>>      *)
(* standing for h * 10^18 + m * 10^9 + l with 0 <= m, l < 10^9, which      *)
(* holds every 64-bit value although the checker's integers have 32 bits;  *)
(* sums and products wrap at 64 bits as the compiled program's do.         *)
(***************************************************************************)
EXTENDS Integers, Sequences, FiniteSets, TLC

(* ------------------------------------------------------------------ *)
(* Bounds of the model                                                *)
(* ------------------------------------------------------------------ *)
MaxLines == 3
MaxIngestLines == 2
MaxWorkers == 2
MaxTicks == 1

(* ------------------------------------------------------------------ *)
(* Program constants                                                  *)
(* ------------------------------------------------------------------ *)
NANOSEC == 1000000000
DEV_BSIZE == 512
TSH_TOK_IOSTART == <<" ", "-", ">", " ">>
TSH_TOK_READ == <<" ", "t", "y", "p", "e", "=", "R", " ">>
TSH_TOK_WRITE == <<" ", "t", "y", "p", "e", "=", "W", " ">>
TSH_TOK_BLKNO == <<" ", "b", "l", "k", "n", "o", "=">>
TSH_TOK_SIZE == <<" ", "s", "i", "z", "e", "=">>
tsh_cap == <<0, 120, 0>>
LLONG_MAX_DIGITS == <<9,2,2,3,3,7,2,0,3,6,8,5,4,7,7,5,8,0,7>>

(* ------------------------------------------------------------------ *)
(* long long arithmetic on <<h, m, l>> triples                        *)
(* ------------------------------------------------------------------ *)
LLZero == <<0, 0, 0>>
LLONG_MAX == <<9, 223372036, 854775807>>
LLONG_MIN == <<-10, 776627963, 145224192>>
TwoTo64 == <<18, 446744073, 709551616>>

(* a small non-negative int as a long long *)
LLOf(n) == <<0, 0, n>>

(* the triple for h, m, l with m and l up to one limb out of range *)
LLCarryMid(h, m, l) ==
  IF m >= NANOSEC THEN <<h + 1, m - NANOSEC, l>>
  ELSE IF m < 0 THEN <<h - 1, m + NANOSEC, l>>
  ELSE <<h, m, l>>
LLCarryLow(h, m, l) ==
  IF l >= NANOSEC THEN LLCarryMid(h, m + 1, l - NANOSEC)
  ELSE IF l < 0 THEN LLCarryMid(h, m - 1, l + NANOSEC)
  ELSE LLCarryMid(h, m, l)

(* sum and negation in the integers, before any wrapping *)
LLSum(a, b) == LLCarryLow(a[1] + b[1], a[2] + b[2], a[3] + b[3])
LLMinus(a) == LLCarryLow(-a[1], -a[2], -a[3])

LLLess(a, b) ==
  \/ a[1] < b[1]
  \/ a[1] = b[1] /\ a[2] < b[2]
  \/ a[1] = b[1] /\ a[2] = b[2] /\ a[3] < b[3]
LLLeq(a, b) == ~LLLess(b, a)

(* a result outside [LLONG_MIN, LLONG_MAX] is signed overflow, undefined
   in C; the program as built (gcc, -O0 and -O2) keeps the low 64 bits *)
Wrap64(v) ==
  IF LLLess(LLONG_MAX, v) THEN LLSum(v, LLMinus(TwoTo64))
  ELSE IF LLLess(v, LLONG_MIN) THEN LLSum(v, TwoTo64)
  ELSE v

(* a + b and a - b on long long *)
LLAdd(a, b) == Wrap64(LLSum(a, b))
LLSub(a, b) == Wrap64(LLSum(a, LLMinus(b)))

(* a * k on long long, for a small k >= 0 *)
RECURSIVE LLTimes(_, _)
LLTimes(a, k) ==
  IF k = 0 THEN LLZero
  ELSE IF k % 2 = 0 THEN LLTimes(LLAdd(a, a), k \div 2)
  ELSE LLAdd(a, LLTimes(LLAdd(a, a), k \div 2))

(* a & ~(DEV_BSIZE - 1): DEV_BSIZE divides 10^9, so only the low limb
   matters *)
LLAlignDown(a) == <<a[1], a[2], a[3] - (a[3] % DEV_BSIZE)>>

(* ------------------------------------------------------------------ *)
(* C strings                                                          *)
(* ------------------------------------------------------------------ *)
NUL == "NUL"
CharAt(s, i) == IF i >= 1 /\ i <= Len(s) THEN s[i] ELSE NUL
(* the vertical tab, 0x0B, which a TLA+ string cannot spell *)
VT == "VT"
(* isspace(3) in the C locale *)
IsSpace(c) == c \in {" ", "\t", "\n", VT, "\f", "\r"}
Digits == <<"0", "1", "2", "3", "4", "5", "6", "7", "8", "9">>
IsDigit(c) == \E d \in 1..10 : Digits[d] = c
DigitVal(c) == (CHOOSE d \in 1..10 : Digits[d] = c) - 1

MatchAt(s, tok, i) ==
  /\ i + Len(tok) - 1 <= Len(s)
  /\ \A k \in 1..Len(tok) : s[i + k - 1] = tok[k]

(* strstr(3): index of the first occurrence of tok in s, 0 (NULL) if none *)
strstr(s, tok) ==
  LET hits == {i \in 1..Len(s) : MatchAt(s, tok, i)}
  IN  IF hits = {} THEN 0 ELSE CHOOSE i \in hits : \A j \in hits : i <= j

RECURSIVE SkipSpace(_, _)
SkipSpace(s, i) == IF IsSpace(CharAt(s, i)) THEN SkipSpace(s, i + 1) ELSE i

RECURSIVE DigitsEnd(_, _)
DigitsEnd(s, i) == IF IsDigit(CharAt(s, i)) THEN DigitsEnd(s, i + 1) ELSE i

RECURSIVE SkipZeros(_, _, _)
SkipZeros(s, i, e) ==
  IF i < e - 1 /\ s[i] = "0" THEN SkipZeros(s, i + 1, e) ELSE i

RECURSIVE DecVal(_, _, _)
DecVal(s, i, e) ==
  IF i >= e THEN 0 ELSE DecVal(s, i, e - 1) * 10 + DigitVal(s[e - 1])

(* the digits s[i..e-1], without leading zeros, exceed LLONG_MAX (+ extra) *)
RECURSIVE DigitsAbove(_, _, _, _)
DigitsAbove(s, i, k, extra) ==
  IF k > 19 THEN extra < 0
  ELSE LET d == DigitVal(s[i + k - 1])
           m == IF k = 19 THEN LLONG_MAX_DIGITS[k] + extra
                ELSE LLONG_MAX_DIGITS[k]
       IN  IF d > m THEN TRUE
           ELSE IF d < m THEN FALSE
           ELSE DigitsAbove(s, i, k + 1, extra)

(* strtoll(3), base 10, from index `from`: the value, the end pointer and
   whether errno was set (ERANGE).  Without digits nothing is converted:
   the value is 0 and the end pointer is `from`.  The steps, last first:
   the result for digits s[z..e-1] in range; the range check once leading
   zeros are skipped; the digits after the sign; the sign after the blanks. *)
StrtollResult(neg, e, v) ==
  [val |-> IF neg THEN LLMinus(v) ELSE v, end |-> e, errno |-> FALSE]

StrtollRange(s, neg, e, z) ==
  IF \/ e - z > 19
     \/ e - z = 19 /\ DigitsAbove(s, z, 1, IF neg THEN 1 ELSE 0)
  THEN [val |-> IF neg THEN LLONG_MIN ELSE LLONG_MAX,
        end |-> e, errno |-> TRUE]
  ELSE StrtollResult(neg, e,
         <<DecVal(s, z, e - 18),
           DecVal(s, IF e - 18 > z THEN e - 18 ELSE z, e - 9),
           DecVal(s, IF e - 9 > z THEN e - 9 ELSE z, e)>>)

StrtollDigits(s, from, neg, q, e) ==
  IF e = q THEN [val |-> LLZero, end |-> from, errno |-> FALSE]
  ELSE StrtollRange(s, neg, e, SkipZeros(s, q, e))

StrtollSign(s, from, p) ==
  StrtollDigits(s, from, CharAt(s, p) = "-",
                IF CharAt(s, p) \in {"-", "+"} THEN p + 1 ELSE p,
                DigitsEnd(s, IF CharAt(s, p) \in {"-", "+"} THEN p + 1 ELSE p))

strtoll(s, from) == StrtollSign(s, from, SkipSpace(s, from))

(* read_field: [ok, val, why]; r is what strtoll returned for the text at
   index `start`, right after the field's label *)
ReadFieldValue(line, start, r) ==
  IF r.errno
  THEN [ok |-> FALSE, val |-> LLZero, why |-> "illegal"]
  ELSE IF /\ CharAt(line, r.end) # " "
          /\ (CharAt(line, r.end) # NUL \/ r.end = start)
  THEN [ok |-> FALSE, val |-> LLZero, why |-> "invalid"]
  ELSE [ok |-> TRUE, val |-> r.val, why |-> "none"]

ReadFieldAt(line, field, found) ==
  IF found = 0
  THEN [ok |-> FALSE, val |-> LLZero, why |-> "missing"]
  ELSE ReadFieldValue(line, found + Len(field),
                      strtoll(line, found + Len(field)))

read_field(line, field) == ReadFieldAt(line, field, strstr(line, field))

(* ------------------------------------------------------------------ *)
(* Input lines of the replay log, as fgets returns them               *)
(* ------------------------------------------------------------------ *)
(* 0 -> type=R blkno=0 size=4096 \n   (a read of 4096 bytes at block 0, scheduled at 0) *)
LineR0 ==
  <<"0", " ", "-", ">", " ", "t", "y", "p", "e", "=", "R", " ", "b", "l",
     "k", "n", "o", "=", "0", " ", "s", "i", "z", "e", "=", "4", "0", "9",
     "6", " ", "\n">>
(* 1000000 -> type=W blkno=8 size=4096 \n   (a write at block 8, scheduled at 1 ms) *)
LineW1ms ==
  <<"1", "0", "0", "0", "0", "0", "0", " ", "-", ">", " ", "t", "y", "p",
     "e", "=", "W", " ", "b", "l", "k", "n", "o", "=", "8", " ", "s", "i",
     "z", "e", "=", "4", "0", "9", "6", " ", "\n">>
(* 0 -> type=R blkno=0 size=4096\n   (size is the last field of the line) *)
LineEolR ==
  <<"0", " ", "-", ">", " ", "t", "y", "p", "e", "=", "R", " ", "b", "l",
     "k", "n", "o", "=", "0", " ", "s", "i", "z", "e", "=", "4", "0", "9",
     "6", "\n">>
(* 1000000 -> type=W blkno=8 size=4096\n   (size is the last field of the line) *)
LineEolW ==
  <<"1", "0", "0", "0", "0", "0", "0", " ", "-", ">", " ", "t", "y", "p",
     "e", "=", "W", " ", "b", "l", "k", "n", "o", "=", "8", " ", "s", "i",
     "z", "e", "=", "4", "0", "9", "6", "\n">>
(* 120000000000 -> type=R blkno=0 size=512 \n   (scheduled exactly at the cap) *)
LineAtCap ==
  <<"1", "2", "0", "0", "0", "0", "0", "0", "0", "0", "0", "0", " ", "-",
     ">", " ", "t", "y", "p", "e", "=", "R", " ", "b", "l", "k", "n", "o",
     "=", "0", " ", "s", "i", "z", "e", "=", "5", "1", "2", " ", "\n">>
(* 120000000001 -> type=W blkno=0 size=512 \n   (scheduled 1 ns past the cap) *)
LinePastCap ==
  <<"1", "2", "0", "0", "0", "0", "0", "0", "0", "0", "0", "1", " ", "-",
     ">", " ", "t", "y", "p", "e", "=", "W", " ", "b", "l", "k", "n", "o",
     "=", "0", " ", "s", "i", "z", "e", "=", "5", "1", "2", " ", "\n">>
(* # io\n   (no start-of-record marker) *)
LineComment ==
  <<"#", " ", "i", "o", "\n">>
(* 0 -> type=R blkno=0 \n   (no size field) *)
LineNoSize ==
  <<"0", " ", "-", ">", " ", "t", "y", "p", "e", "=", "R", " ", "b", "l",
     "k", "n", "o", "=", "0", " ", "\n">>
(* x -> type=R blkno=0 size=512 \n   (time offset is not a number) *)
LineBadTime ==
  <<"x", " ", "-", ">", " ", "t", "y", "p", "e", "=", "R", " ", "b", "l",
     "k", "n", "o", "=", "0", " ", "s", "i", "z", "e", "=", "5", "1", "2",
     " ", "\n">>
(* 99999999999999999999 -> type=R blkno=0 size=512 \n   (time offset out of range) *)
LineHugeTime ==
  <<"9", "9", "9", "9", "9", "9", "9", "9", "9", "9", "9", "9", "9", "9",
     "9", "9", "9", "9", "9", "9", " ", "-", ">", " ", "t", "y", "p", "e",
     "=", "R", " ", "b", "l", "k", "n", "o", "=", "0", " ", "s", "i", "z",
     "e", "=", "5", "1", "2", " ", "\n">>
(* 0 -> blkno=0 size=512 \n   (no direction) *)
LineNoType ==
  <<"0", " ", "-", ">", " ", "b", "l", "k", "n", "o", "=", "0", " ", "s",
     "i", "z", "e", "=", "5", "1", "2", " ", "\n">>
(* 0 -> type=R blkno=z size=512 \n   (block number is not a number) *)
LineBadBlkno ==
  <<"0", " ", "-", ">", " ", "t", "y", "p", "e", "=", "R", " ", "b", "l",
     "k", "n", "o", "=", "z", " ", "s", "i", "z", "e", "=", "5", "1", "2",
     " ", "\n">>
(*  -> type=R blkno=0 size=512 \n   (no time offset before the marker) *)
LineNoTime ==
  <<" ", "-", ">", " ", "t", "y", "p", "e", "=", "R", " ", "b", "l", "k",
     "n", "o", "=", "0", " ", "s", "i", "z", "e", "=", "5", "1", "2", " ",
     "\n">>
(* 0 -> type=W blkno= size=512 \n   (block number has no digits) *)
LineEmptyBlkno ==
  <<"0", " ", "-", ">", " ", "t", "y", "p", "e", "=", "W", " ", "b", "l",
     "k", "n", "o", "=", " ", "s", "i", "z", "e", "=", "5", "1", "2", " ",
     "\n">>
(* 0 -> type=W blkno=99 size=512 \n   (ends past the end of the target) *)
LineBeyond ==
  <<"0", " ", "-", ">", " ", "t", "y", "p", "e", "=", "W", " ", "b", "l",
     "k", "n", "o", "=", "9", "9", " ", "s", "i", "z", "e", "=", "5", "1",
     "2", " ", "\n">>

(* 0 -> type=W blkno=0 size=9000 \n   (larger than the whole target) *)
LineTooBig ==
  <<"0", " ", "-", ">", " ", "t", "y", "p", "e", "=", "W", " ", "b", "l",
     "k", "n", "o", "=", "0", " ", "s", "i", "z", "e", "=", "9", "0", "0",
     "0", " ", "\n">>

(* 0 -> type=R blkno=\v3 size=512 \n   (a vertical tab before the block number) *)
LineVtBlkno ==
  <<"0", " ", "-", ">", " ", "t", "y", "p", "e", "=", "R", " ", "b", "l",
     "k", "n", "o", "=", VT, "3", " ", "s", "i", "z", "e", "=", "5", "1",
     "2", " ", "\n">>
(* 9223372036854775807 -> type=R blkno=0 size=512 \n   (the largest time offset strtoll converts) *)
LineMaxTime ==
  <<"9", "2", "2", "3", "3", "7", "2", "0", "3", "6", "8", "5", "4", "7",
     "7", "5", "8", "0", "7", " ", "-", ">", " ", "t", "y", "p", "e", "=",
     "R", " ", "b", "l", "k", "n", "o", "=", "0", " ", "s", "i", "z", "e",
     "=", "5", "1", "2", " ", "\n">>
(* 0 -> type=R blkno=36028797018963968 size=512 \n   (blkno 2^55: blkno * 512 is 2^64) *)
LineBlknoWraps ==
  <<"0", " ", "-", ">", " ", "t", "y", "p", "e", "=", "R", " ", "b", "l",
     "k", "n", "o", "=", "3", "6", "0", "2", "8", "7", "9", "7", "0", "1",
     "8", "9", "6", "3", "9", "6", "8", " ", "s", "i", "z", "e", "=", "5",
     "1", "2", " ", "\n">>
(* 0 -> type=R blkno=18014398509481984 size=512 \n   (blkno 2^54: blkno * 512 is 2^63) *)
LineBlknoMin ==
  <<"0", " ", "-", ">", " ", "t", "y", "p", "e", "=", "R", " ", "b", "l",
     "k", "n", "o", "=", "1", "8", "0", "1", "4", "3", "9", "8", "5", "0",
     "9", "4", "8", "1", "9", "8", "4", " ", "s", "i", "z", "e", "=", "5",
     "1", "2", " ", "\n">>
(* 0 -> type=R blkno=18014398509481983 size=512 \n   (offset + size is 2^63) *)
LineSumWraps ==
  <<"0", " ", "-", ">", " ", "t", "y", "p", "e", "=", "R", " ", "b", "l",
     "k", "n", "o", "=", "1", "8", "0", "1", "4", "3", "9", "8", "5", "0",
     "9", "4", "8", "1", "9", "8", "3", " ", "s", "i", "z", "e", "=", "5",
     "1", "2", " ", "\n">>
(* 0 -> type=W blkno=1 size=9223372036854775807 \n   (the largest size strtoll converts) *)
LineSizeMax ==
  <<"0", " ", "-", ">", " ", "t", "y", "p", "e", "=", "W", " ", "b", "l",
     "k", "n", "o", "=", "1", " ", "s", "i", "z", "e", "=", "9", "2", "2",
     "3", "3", "7", "2", "0", "3", "6", "8", "5", "4", "7", "7", "5", "8",
     "0", "7", " ", "\n">>
ReplayLines == {LineR0, LineW1ms}
IngestLines ==
  ReplayLines \cup
  {LineEolR, LineEolW, LineAtCap, LinePastCap, LineComment, LineNoSize,
   LineBadTime, LineHugeTime, LineNoType, LineBadBlkno, LineNoTime,
   LineEmptyBlkno, LineBeyond, LineTooBig, LineVtBlkno, LineMaxTime,
   LineBlknoWraps, LineBlknoMin, LineSumWraps, LineSizeMax}

(* ------------------------------------------------------------------ *)
(* Ingestion of one line (the body of read_log's loop)                *)
(* ------------------------------------------------------------------ *)
TargetBlocks == 16
tsh_size == TargetBlocks * DEV_BSIZE

(* a tsh_op_t after bzero, with the parsed fields set *)
NewOp(isread, offset, size, sched) ==
  [read |-> isread, offset |-> offset, size |-> size, sched |-> sched,
   start |-> LLZero, done |-> LLZero, outr |-> 0, outw |-> 0,
   doner |-> 0, donew |-> 0, worker |-> 0]
NoOp == NewOp(FALSE, LLZero, LLZero, LLZero)

(* clamp = tsh_size - size; clamp &= ~(DEV_BSIZE - 1) *)
ClampOffset(size) == LLAlignDown(LLSub(LLOf(tsh_size), size))

(* what read_log does with one line: skip it, exit(1), or queue an op *)
Fatal(why) == [kind |-> "fatal", why |-> why, warn |-> FALSE, op |-> NoOp]

(* lines 175-189: the bounds check on the parsed op *)
ParseBounds(clamp, isread, sched, offset, size) ==
  IF LLLess(LLOf(tsh_size), LLAdd(offset, size))
  THEN IF clamp
       THEN [kind |-> "op", why |-> "none", warn |-> TRUE,
             op |-> NewOp(isread, ClampOffset(size), size, sched)]
       ELSE Fatal("offset exceeds size")
  ELSE [kind |-> "op", why |-> "none", warn |-> FALSE,
        op |-> NewOp(isread, offset, size, sched)]

(* lines 150-173: direction, time offset, block number, size, in the
   order the code looks at them *)
ParseRecord(line, clamp, isread, iswrite, t, b, z) ==
  IF ~isread /\ ~iswrite THEN Fatal("could not determine I/O type")
  ELSE IF t.errno THEN Fatal("illegal time offset")
  ELSE IF CharAt(line, t.end) # " " THEN Fatal("invalid time offset")
  ELSE IF ~b.ok THEN Fatal("blkno")
  ELSE IF ~z.ok THEN Fatal("size")
  ELSE ParseBounds(clamp, isread, t.val,
                   LLTimes(b.val, DEV_BSIZE), z.val)

ParseLine(line, clamp) ==
  IF strstr(line, TSH_TOK_IOSTART) = 0
  THEN [kind |-> "skip", why |-> "none", warn |-> FALSE, op |-> NoOp]
  ELSE ParseRecord(line, clamp,
                   strstr(line, TSH_TOK_READ) # 0,
                   strstr(line, TSH_TOK_WRITE) # 0,
                   strtoll(line, 1),
                   read_field(line, TSH_TOK_BLKNO),
                   read_field(line, TSH_TOK_SIZE))

(* op->tsho_sched > tsh_cap: stop reading *)
PastCap(op) == LLLess(tsh_cap, op.sched)

(* ------------------------------------------------------------------ *)
(* State                                                              *)
(* ------------------------------------------------------------------ *)
VARIABLES
  trace,        \* the lines of the replay log on stdin
  tsh_clamp,    \* -c
  tsh_nworkers, \* -t
  lineno,       \* read_log: lines read so far
  nops,         \* read_log: operations counted
  nreads,       \* read_log: reads counted
  summary,      \* the "N operations (R reads, W writes)" line, once printed
  ops,          \* the queue tsh_first .. tsh_last, in tsho_next order
  mpc,          \* where the main thread is
  fatal,        \* message of the errx/err that ended the process
  dop,          \* tsh_dispatcher: op (index into ops, 0 = NULL)
  dworker,      \* tsh_dispatcher: worker
  tsh_start,    \* start of replay
  now,          \* what gethrtime() returns
  ticks,        \* free clock advances taken so far
  wpc,          \* where each worker thread is
  tshw_op,      \* each worker's mailbox (0 = NULL)
  nread,        \* tsh_read / tsh_write: result of the last pread or pwrite
  tsh_workers,  \* the idle chain, head first
  tsh_readers,
  tsh_writers,
  lock,         \* owner of tsh_worker_lock (0 = unlocked)
  started,      \* tsh_firststart .. tsh_laststart, in tsho_nextstart order
  completed,    \* tsh_firstdone .. tsh_lastdone, in tsho_nextdone order
  issued,       \* tsh_dump: cursor into started (0 = NULL)
  done,         \* tsh_dump: cursor into completed (0 = NULL)
  out           \* the lines tsh_dump has printed

(* toshstomp (src/toshstomp.c), a separate program *)
VARIABLES
  nwriters,                  \* -w
  nreaders,                  \* -r
  spc,                       \* where each reader or writer thread is
  tsh_nreads,
  tsh_nwrites,
  reg,                       \* each thread's copy of the counter it is raising
  turns,                     \* loop turns each thread has finished
  tsh_write_lba_current,
  tsh_write_lba_wraparounds,
  tsh_write_lba_lock,        \* the writer holding the mutex, 0 if none
  pending,                   \* main's printf: the counters it has yet to load
  loaded,                    \* main's printf: the values it has loaded
  nreports,                  \* lines main has printed
  stats                      \* the last line main printed

reportVars == <<pending, loaded, nreports, stats>>
stompVars == <<nwriters, nreaders, spc, tsh_nreads, tsh_nwrites, reg, turns,
               tsh_write_lba_current, tsh_write_lba_wraparounds,
               tsh_write_lba_lock, reportVars>>

replayVars == <<trace, tsh_clamp, tsh_nworkers, lineno, nops, nreads, summary,
                ops, mpc, fatal, dop, dworker, tsh_start, now, ticks, wpc,
                tshw_op, nread, tsh_workers, tsh_readers, tsh_writers, lock,
                started, completed, issued, done, out>>

vars == <<replayVars, stompVars>>

ingestVars == <<lineno, nops, nreads, summary>>
dumpVars == <<issued, done, out>>
poolVars == <<wpc, tshw_op, nread, tsh_workers, tsh_readers, tsh_writers,
              started, completed>>
inputVars == <<trace, tsh_clamp, tsh_nworkers>>

Workers == 1..tsh_nworkers
BootTime == <<0, 1, 999999999>>
IoResults == {"ok", "short", "error"}

RECURSIVE TracesUpTo(_, _)
TracesUpTo(lines, n) ==
  IF n = 0 THEN {<<>>}
  ELSE LET shorter == TracesUpTo(lines, n - 1)
       IN  shorter \cup {Append(t, l) : t \in shorter, l \in lines}

(* the state when main calls read_log: the worker threads are created,
   none has run yet *)
InitWith(traces, clamps, pools) ==
  /\ trace \in traces
  /\ tsh_clamp \in clamps
  /\ tsh_nworkers \in pools
  /\ lineno = 0 /\ nops = 0 /\ nreads = 0
  /\ summary = <<>>
  /\ ops = <<>>
  /\ mpc = "read_log"
  /\ fatal = "none"
  /\ dop = 0 /\ dworker = 0
  /\ tsh_start = LLZero
  /\ now = BootTime
  /\ ticks = 0
  /\ wpc = [w \in 1..tsh_nworkers |-> "created"]
  /\ tshw_op = [w \in 1..tsh_nworkers |-> 0]
  /\ nread = [w \in 1..tsh_nworkers |-> "none"]
  /\ tsh_workers = <<>>
  /\ tsh_readers = 0 /\ tsh_writers = 0
  /\ lock = 0
  /\ started = <<>> /\ completed = <<>>
  /\ issued = 0 /\ done = 0 /\ out = <<>>

(* toshstomp's state when it was started with threads writers and readers:
   the threads are created, none has run yet (lines 127-161) *)
TSH_BUFSHIFT == 13
tsh_bufsz == 2 ^ TSH_BUFSHIFT
StompBlocks == 8
stomp_size == StompBlocks * tsh_bufsz
(* (tsh_size / 2) & (~TSH_BUFMASK) *)
tsh_write_lba_init == ((stomp_size \div 2) \div tsh_bufsz) * tsh_bufsz

(* the counters the report line shows, and a line's worth of them *)
ReportFields == {"nreads", "nwrites", "wrlba", "wr"}
NoStats == [f \in ReportFields |-> 0]

InitStomp(writers, readers) ==
  /\ nwriters \in writers
  /\ nreaders \in readers
  /\ spc = [t \in 1..(nwriters + nreaders) |->
             IF t <= nwriters THEN "lba" ELSE "io"]
  /\ tsh_nreads = 0 /\ tsh_nwrites = 0
  /\ reg = [t \in 1..(nwriters + nreaders) |-> 0]
  /\ turns = [t \in 1..(nwriters + nreaders) |-> 0]
  /\ tsh_write_lba_current = tsh_write_lba_init
  /\ tsh_write_lba_wraparounds = 0
  /\ tsh_write_lba_lock = 0
  /\ pending = ReportFields
  /\ loaded = NoStats
  /\ nreports = 0
  /\ stats = <<>>

(* the logs replayed: up to MaxLines ordinary records, or up to
   MaxLines - 2 of them and then the record with the largest time offset,
   after which read_log reads no further line *)
ReplayTraces ==
  TracesUpTo(ReplayLines, MaxLines) \cup
  {Append(t, LineMaxTime) : t \in TracesUpTo(ReplayLines, MaxLines - 2)}

(* toshreplay alone: no toshstomp thread exists *)
Init ==
  /\ InitWith(ReplayTraces, {FALSE}, 1..MaxWorkers)
  /\ InitStomp({0}, {0})
InitIngest ==
  /\ InitWith(TracesUpTo(IngestLines, MaxIngestLines), BOOLEAN, {1})
  /\ InitStomp({0}, {0})

Running == mpc \notin {"fatal", "exited"}

(* errx(1, ...) / err(1, ...): the process exits *)
Die(why) == mpc' = "fatal" /\ fatal' = why

(* lines 140-205: what one line does to the queue and the counters *)
Ingest(r) ==
  CASE r.kind = "skip" ->
         UNCHANGED <<nops, nreads, summary, ops, mpc, fatal>>
    [] r.kind = "fatal" ->
         /\ Die(r.why)
         /\ UNCHANGED <<nops, nreads, summary, ops>>
    [] r.kind = "op" ->
         /\ nreads' = IF r.op.read THEN nreads + 1 ELSE nreads
         /\ nops' = nops + 1
         /\ ops' = Append(ops, r.op)
         /\ IF PastCap(r.op)
            THEN /\ summary' = <<nops', nreads', nops' - nreads'>>
                 /\ mpc' = "dispatcher"
            ELSE UNCHANGED <<summary, mpc>>
         /\ UNCHANGED fatal

(* read_log: one turn of the fgets loop, or the printf after it *)
ReadLine ==
  /\ mpc = "read_log"
  /\ UNCHANGED <<inputVars, dop, dworker, tsh_start, now, ticks, poolVars,
                 lock, dumpVars>>
  /\ IF lineno = Len(trace)
     THEN /\ summary' = <<nops, nreads, nops - nreads>>
          /\ mpc' = "dispatcher"
          /\ UNCHANGED <<lineno, nops, nreads, ops, fatal>>
     ELSE /\ lineno' = lineno + 1
          /\ Ingest(ParseLine(trace[lineno + 1], tsh_clamp))

(* ------------------------------------------------------------------ *)
(* The clock                                                          *)
(* ------------------------------------------------------------------ *)
(* gethrtime() is monotonic: a call returns the value of the call before
   it, or a later one *)
gethrtime ==
  {now} \cup (IF ticks < MaxTicks THEN {LLAdd(now, LLOf(1))} ELSE {})

(* the clock after a call that returned t *)
ClockRead(t) ==
  /\ now' = t
  /\ ticks' = IF t = now THEN ticks ELSE ticks + 1

(* sched = op->tsho_sched + tsh_start *)
DispatchTime(o) == LLAdd(ops[o].sched, tsh_start)

(* while (gethrtime() < sched) continue: the call that ends the spin
   returns sched, or the value of an ordinary call if that is later *)
SpinEnd(o) ==
  IF LLLess(now, DispatchTime(o)) THEN {DispatchTime(o)} ELSE gethrtime

(* ------------------------------------------------------------------ *)
(* tsh_worker                                                         *)
(* ------------------------------------------------------------------ *)
Incr(c) == c + 1
(* a completion that leaves the counter alone *)
DecrForgotten(c) == c
Decr(c) == c - 1

(* the owner of tsh_worker_lock while tsh_dispatcher holds it; a worker
   that holds it is the owner under its own number, and 0 is unlocked *)
MainThread == MaxWorkers + 1

(* lines 247-251: clear the mailbox, push me on the idle chain, and wait
   on my condition variable, which releases the lock *)
JoinPool(me) ==
  /\ tshw_op' = [tshw_op EXCEPT ![me] = 0]
  /\ tsh_workers' = <<me>> \o tsh_workers
  /\ wpc' = [wpc EXCEPT ![me] = "waiting"]
  /\ lock' = 0

(* pthread_mutex_lock(&tsh_worker_lock) by a worker, at line 242, at line
   286, or inside pthread_cond_wait before it returns (line 251): the
   thread waits until the mutex is free *)
TakeLock(me, from, to) ==
  /\ Running
  /\ wpc[me] = from
  /\ lock = 0
  /\ lock' = me
  /\ wpc' = [wpc EXCEPT ![me] = to]
  /\ UNCHANGED <<inputVars, ingestVars, ops, mpc, fatal, dop, dworker,
                 tsh_start, now, ticks, tshw_op, nread, tsh_workers,
                 tsh_readers, tsh_writers, started, completed, dumpVars>>

(* line 242: a new thread takes the lock *)
WorkerLock(me) == TakeLock(me, "created", "joining")

(* lines 247-251: with the lock held, the new thread joins the pool and
   waits *)
WorkerJoin(me) ==
  /\ Running
  /\ wpc[me] = "joining"
  /\ JoinPool(me)
  /\ UNCHANGED <<inputVars, ingestVars, ops, mpc, fatal, dop, dworker,
                 tsh_start, now, ticks, nread, tsh_readers, tsh_writers,
                 started, completed, dumpVars>>

(* op->tsho_start = gethrtime() *)
StartStamp(t) == t

(* a list built by pushing at its head *)
ListPush(list, o) == <<o>> \o list
(* lines 269-275 and 292-298: link op behind tsh_laststart / tsh_lastdone *)
ListAppend(list, o) == Append(list, o)

(* a worker that goes on to its I/O with the lock still held *)
UnlockSkipped(me) == me
(* line 277, pthread_mutex_unlock(&tsh_worker_lock): the owner afterwards *)
Unlock(me) == 0

(* a snapshot taken after the worker has counted itself *)
StartSnapshotCountsSelf(counter, own) ==
  IF own THEN counter + 1 ELSE counter
(* lines 255-256, op->tsho_outr = tsh_readers; op->tsho_outw = tsh_writers:
   the counter as it is before lines 261-265 raise the one of the
   operation's own direction *)
StartSnapshot(counter, own) == counter

(* line 251: pthread_cond_wait may return although nobody signalled the
   condition variable (a spurious wakeup); the code does not wait in a
   loop that tests the mailbox *)
WorkerWakeSpurious(me) ==
  /\ Running
  /\ wpc[me] = "waiting"
  /\ wpc' = [wpc EXCEPT ![me] = "signalled"]
  /\ UNCHANGED <<inputVars, ingestVars, ops, mpc, fatal, dop, dworker,
                 tsh_start, now, ticks, tshw_op, nread, tsh_workers,
                 tsh_readers, tsh_writers, lock, started, completed,
                 dumpVars>>

(* lines 253-255 with an empty mailbox: op is NULL and op->tsho_outr is
   written through it; the process dies of the fault *)
WorkerNullOp ==
  /\ Die("SIGSEGV")
  /\ UNCHANGED <<ops, now, ticks, tsh_readers, tsh_writers, started, lock,
                 wpc>>

(* lines 253-277: the worker snapshots the counters, counts itself, stamps
   the start, appends to the started list and unlocks *)
WorkerBegin(me) ==
  /\ \E t \in gethrtime :
       LET op == tshw_op[me]
       IN  /\ ops' = [ops EXCEPT
                        ![op].outr = StartSnapshot(tsh_readers, ops[op].read),
                        ![op].outw = StartSnapshot(tsh_writers, ~ops[op].read),
                        ![op].start = StartStamp(t)]
           /\ ClockRead(t)
  /\ IF ops[tshw_op[me]].read
     THEN tsh_readers' = Incr(tsh_readers) /\ UNCHANGED tsh_writers
     ELSE tsh_writers' = Incr(tsh_writers) /\ UNCHANGED tsh_readers
  /\ started' = ListAppend(started, tshw_op[me])
  /\ lock' = Unlock(me)
  /\ wpc' = [wpc EXCEPT ![me] = "record"]
  /\ UNCHANGED <<mpc, fatal>>

(* line 251: pthread_cond_wait takes the lock again before it returns,
   whether the worker was signalled or woke by itself *)
WorkerWake(me) == TakeLock(me, "signalled", "start")

(* lines 253-277: with the lock held again, the worker takes what is in
   its mailbox *)
WorkerStart(me) ==
  /\ Running
  /\ wpc[me] = "start"
  /\ IF tshw_op[me] = 0 THEN WorkerNullOp ELSE WorkerBegin(me)
  /\ UNCHANGED <<inputVars, ingestVars, dop, dworker, tsh_start, tshw_op,
                 nread, tsh_workers, completed, dumpVars>>

(* line 278: op->tsho_worker = me->tshw_id, after the unlock and before
   the I/O *)
WorkerRecord(me) ==
  /\ Running
  /\ wpc[me] = "record"
  /\ ops' = [ops EXCEPT ![tshw_op[me]].worker = me]
  /\ wpc' = [wpc EXCEPT ![me] = "io"]
  /\ UNCHANGED <<inputVars, ingestVars, mpc, fatal, dop, dworker, tsh_start,
                 now, ticks, tshw_op, nread, tsh_workers, tsh_readers,
                 tsh_writers, lock, started, completed, dumpVars>>

(* an I/O routine that calls err() where the code calls warn() *)
tsh_io_exits(result) == IF result = "ok" THEN "return" ELSE "exit"
(* tsh_read / tsh_write: what follows the pread or pwrite, by its result *)
tsh_io(result) == IF result = "ok" THEN "return" ELSE "warn"

(* lines 280-284: the blocking pread or pwrite returns *)
WorkerIO(me) ==
  /\ Running
  /\ wpc[me] = "io"
  /\ \E result \in IoResults :
       /\ nread' = [nread EXCEPT ![me] = result]
       /\ IF tsh_io(result) = "exit"
          THEN Die("I/O") /\ UNCHANGED wpc
          ELSE wpc' = [wpc EXCEPT ![me] = "iodone"] /\ UNCHANGED <<mpc, fatal>>
  /\ UNCHANGED <<inputVars, ingestVars, ops, dop, dworker, tsh_start, now,
                 ticks, tshw_op, tsh_workers, tsh_readers, tsh_writers, lock,
                 started, completed, dumpVars>>

(* line 286: after the I/O the worker takes the lock again *)
WorkerRelock(me) == TakeLock(me, "iodone", "done")

(* a completion stamped relative to the start of the replay *)
DoneStampRelative(t) == LLSub(t, tsh_start)
(* op->tsho_done = gethrtime() *)
DoneStamp(t) == t

(* lines 288-304 and 247-251: with the lock held, stamp the completion,
   snapshot the counters, append to the completed list, uncount, and
   rejoin the pool *)
WorkerDone(me) ==
  /\ Running
  /\ wpc[me] = "done"
  /\ \E t \in gethrtime :
       LET op == tshw_op[me]
       IN  /\ ops' = [ops EXCEPT ![op].done = DoneStamp(t),
                                 ![op].doner = tsh_readers,
                                 ![op].donew = tsh_writers]
           /\ ClockRead(t)
  /\ completed' = ListAppend(completed, tshw_op[me])
  /\ IF ops[tshw_op[me]].read
     THEN tsh_readers' = Decr(tsh_readers) /\ UNCHANGED tsh_writers
     ELSE tsh_writers' = Decr(tsh_writers) /\ UNCHANGED tsh_readers
  /\ JoinPool(me)
  /\ nread' = [nread EXCEPT ![me] = "none"]
  /\ UNCHANGED <<inputVars, ingestVars, mpc, fatal, dop, dworker, tsh_start,
                 started, dumpVars>>

(* ------------------------------------------------------------------ *)
(* tsh_dispatcher                                                     *)
(* ------------------------------------------------------------------ *)
FirstOp == IF ops = <<>> THEN 0 ELSE 1
(* a dispatcher that steps two links at once *)
NextOpSkips(o) == IF o + 1 < Len(ops) THEN o + 2 ELSE 0
(* op = op->tsho_next *)
NextOp(o) == IF o < Len(ops) THEN o + 1 ELSE 0

(* lines 311-313: op = tsh_first; tsh_start = gethrtime() *)
DispatcherStart ==
  /\ mpc = "dispatcher"
  /\ dop' = FirstOp
  /\ \E t \in gethrtime : tsh_start' = t /\ ClockRead(t)
  /\ mpc' = IF dop' = 0 THEN "dump" ELSE "spin"
  /\ UNCHANGED <<inputVars, ingestVars, ops, fatal, dworker, poolVars, lock,
                 dumpVars>>

(* lines 316-319: the spin is over once gethrtime() returns sched or
   more; no lock is held *)
DispatchSpin ==
  /\ mpc = "spin"
  /\ \E t \in SpinEnd(dop) : ClockRead(t)
  /\ mpc' = "lock"
  /\ UNCHANGED <<inputVars, ingestVars, ops, fatal, dop, dworker, tsh_start,
                 wpc, tshw_op, nread, tsh_workers, tsh_readers, tsh_writers,
                 lock, started, completed, dumpVars>>

(* line 321: pthread_mutex_lock(&tsh_worker_lock); the dispatcher waits
   while a worker holds the lock *)
DispatchLock ==
  /\ mpc = "lock"
  /\ lock = 0
  /\ lock' = MainThread
  /\ mpc' = "check"
  /\ UNCHANGED <<inputVars, ingestVars, ops, fatal, dop, dworker, tsh_start,
                 now, ticks, poolVars, dumpVars>>

(* lines 327-330: no idle worker *)
DispatchExhausted ==
  /\ Die("ran out of workers")
  /\ UNCHANGED <<dop, dworker, tshw_op, tsh_workers, lock>>

(* lines 332-340: fill the head worker's mailbox, pop it, unlock *)
DispatchAssign ==
  /\ dworker' = Head(tsh_workers)
  /\ tshw_op' = [tshw_op EXCEPT ![dworker'] = dop]
  /\ tsh_workers' = Tail(tsh_workers)
  /\ lock' = 0
  /\ mpc' = "signal"
  /\ UNCHANGED <<dop, fatal>>

(* lines 327-340: under the lock, take the next idle worker or die *)
Dispatch ==
  /\ mpc = "check"
  /\ IF tsh_workers = <<>> THEN DispatchExhausted ELSE DispatchAssign
  /\ UNCHANGED <<inputVars, ingestVars, ops, tsh_start, now, ticks, wpc,
                 nread, tsh_readers, tsh_writers, started, completed,
                 dumpVars>>

(* lines 341-343: pthread_cond_signal wakes the worker if it waits on its
   condition variable; then on to the next op, or return to main *)
DispatchSignal ==
  /\ mpc = "signal"
  /\ wpc' = IF wpc[dworker] = "waiting"
            THEN [wpc EXCEPT ![dworker] = "signalled"]
            ELSE wpc
  /\ dop' = NextOp(dop)
  /\ mpc' = IF dop' = 0 THEN "dump" ELSE "spin"
  /\ UNCHANGED <<inputVars, ingestVars, ops, fatal, dworker, tsh_start, now,
                 ticks, tshw_op, nread, tsh_workers, tsh_readers,
                 tsh_writers, lock, started, completed, dumpVars>>

(* ------------------------------------------------------------------ *)
(* tsh_dump                                                           *)
(* ------------------------------------------------------------------ *)
(* a merge that prefers the completion when the two times are equal *)
EmitStartStrict(i, d) ==
  i # 0 /\ LLLess(ops[started[i]].start, ops[completed[d]].done)
(* a merge with the comparison the wrong way round *)
EmitStartReversed(i, d) ==
  i # 0 /\ LLLeq(ops[completed[d]].done, ops[started[i]].start)
(* issued != NULL && issued->tsho_start <= done->tsho_done *)
EmitStart(i, d) ==
  i # 0 /\ LLLeq(ops[started[i]].start, ops[completed[d]].done)

(* line 356: issued = tsh_firststart, read without the lock *)
DumpLoadIssued ==
  /\ mpc = "dump"
  /\ issued' = IF started = <<>> THEN 0 ELSE 1
  /\ mpc' = "load_done"
  /\ UNCHANGED <<inputVars, ingestVars, ops, fatal, dop, dworker, tsh_start,
                 now, ticks, poolVars, lock, done, out>>

(* line 357: done = tsh_firstdone, read without the lock; the workers run
   between the two loads *)
DumpLoadDone ==
  /\ mpc = "load_done"
  /\ done' = IF completed = <<>> THEN 0 ELSE 1
  /\ mpc' = "merge"
  /\ UNCHANGED <<inputVars, ingestVars, ops, fatal, dop, dworker, tsh_start,
                 now, ticks, poolVars, lock, issued, out>>

(* lines 363-370: the line printed for a start; time is the start_time
   that selected it, at and schedlat are the first and last number printed *)
StartLine(o) ==
  [kind |-> "start", op |-> o, time |-> ops[o].start,
   at |-> LLSub(ops[o].start, tsh_start),
   schedlat |-> LLSub(LLSub(ops[o].start, tsh_start), ops[o].sched)]

(* lines 374-382: the line printed for a completion *)
DoneLine(o) ==
  [kind |-> "done", op |-> o, time |-> ops[o].done,
   at |-> LLSub(ops[o].done, tsh_start),
   latency |-> LLSub(ops[o].done, ops[o].start),
   worker |-> ops[o].worker]

(* lines 359-385, one turn of the loop; when it ends main returns and the
   process exits *)
DumpStep ==
  /\ mpc = "merge"
  /\ IF done = 0
     THEN mpc' = "exited" /\ UNCHANGED dumpVars
     ELSE /\ UNCHANGED mpc
          /\ IF EmitStart(issued, done)
             THEN /\ out' = Append(out, StartLine(started[issued]))
                  /\ issued' = IF issued < Len(started) THEN issued + 1 ELSE 0
                  /\ UNCHANGED done
             ELSE /\ out' = Append(out, DoneLine(completed[done]))
                  /\ done' = IF done < Len(completed) THEN done + 1 ELSE 0
                  /\ UNCHANGED issued
  /\ UNCHANGED <<inputVars, ingestVars, ops, fatal, dop, dworker, tsh_start,
                 now, ticks, poolVars, lock>>

(* ------------------------------------------------------------------ *)
(* The program                                                        *)
(* ------------------------------------------------------------------ *)
Next ==
  \/ ReadLine /\ UNCHANGED stompVars
  \/ DispatcherStart /\ UNCHANGED stompVars
  \/ DispatchSpin /\ UNCHANGED stompVars
  \/ DispatchLock /\ UNCHANGED stompVars
  \/ Dispatch /\ UNCHANGED stompVars
  \/ DispatchSignal /\ UNCHANGED stompVars
  \/ DumpLoadIssued /\ UNCHANGED stompVars
  \/ DumpLoadDone /\ UNCHANGED stompVars
  \/ DumpStep /\ UNCHANGED stompVars
  \/ \E me \in Workers : WorkerLock(me) /\ UNCHANGED stompVars
  \/ \E me \in Workers : WorkerJoin(me) /\ UNCHANGED stompVars
  \/ \E me \in Workers : WorkerWakeSpurious(me) /\ UNCHANGED stompVars
  \/ \E me \in Workers : WorkerWake(me) /\ UNCHANGED stompVars
  \/ \E me \in Workers : WorkerStart(me) /\ UNCHANGED stompVars
  \/ \E me \in Workers : WorkerRecord(me) /\ UNCHANGED stompVars
  \/ \E me \in Workers : WorkerIO(me) /\ UNCHANGED stompVars
  \/ \E me \in Workers : WorkerRelock(me) /\ UNCHANGED stompVars
  \/ \E me \in Workers : WorkerDone(me) /\ UNCHANGED stompVars

Spec == Init /\ [][Next]_vars
SpecIngest == InitIngest /\ [][Next]_vars

(* fair scheduling: the main thread, once it has read the log (how long
   fgets blocks is up to whoever writes stdin, not to the scheduler), and
   every worker thread get to run when they can; nothing obliges
   pthread_cond_wait to return unsignalled *)
MainStep ==
  /\ \/ DispatcherStart
     \/ DispatchSpin
     \/ DispatchLock
     \/ Dispatch
     \/ DispatchSignal
     \/ DumpLoadIssued
     \/ DumpLoadDone
     \/ DumpStep
  /\ UNCHANGED stompVars

WorkerStep(w) ==
  /\ w \in Workers
  /\ \/ WorkerLock(w)
     \/ WorkerJoin(w)
     \/ WorkerWake(w)
     \/ WorkerStart(w)
     \/ WorkerRecord(w)
     \/ WorkerIO(w)
     \/ WorkerRelock(w)
     \/ WorkerDone(w)
  /\ UNCHANGED stompVars

MaxFairLines == 2

InitFair ==
  /\ InitWith(TracesUpTo(ReplayLines, MaxFairLines), {FALSE}, 1..MaxWorkers)
  /\ InitStomp({0}, {0})

(* the same short logs without any fairness, for properties that follow
   a run from one state on *)
SpecShort == InitFair /\ [][Next]_vars

SpecFair ==
  /\ InitFair
  /\ [][Next]_vars
  /\ WF_vars(MainStep)
  /\ \A w \in 1..MaxWorkers : WF_vars(WorkerStep(w))

(* ------------------------------------------------------------------ *)
(* toshstomp: the reader and writer threads and main's report         *)
(* ------------------------------------------------------------------ *)
MaxStompWriters == 2
MaxStompReaders == 2
MaxStompThreads == 3
MaxTurns == 2
MaxReports == 1

StompThreads == 1..(nwriters + nreaders)
StompWriters == 1..nwriters
StompReaders == (nwriters + 1)..(nwriters + nreaders)

(* counter++ on a plain int shared by the threads, without a lock: the
   thread loaded the counter into copy earlier and now stores copy + 1 *)
CounterAdvance(counter, copy) == copy + 1

(* the thread goes round its for (;;) loop; the model stops it after
   MaxTurns turns *)
LoopAgain(t, first) ==
  /\ turns' = [turns EXCEPT ![t] = turns[t] + 1]
  /\ spc' = [spc EXCEPT ![t] = IF turns[t] + 1 < MaxTurns THEN first
                                ELSE "stopped"]

(* lines 228-236: pread at a random LBA, warn if it failed or was short;
   neither the LBA nor the result is kept *)
ReaderIO(t) ==
  /\ t \in StompReaders
  /\ spc[t] = "io"
  /\ \E result \in IoResults : spc' = [spc EXCEPT ![t] = "load"]
  /\ UNCHANGED <<replayVars, nwriters, nreaders, tsh_nreads, tsh_nwrites,
                 reg, turns, tsh_write_lba_current,
                 tsh_write_lba_wraparounds, tsh_write_lba_lock, reportVars>>

(* line 238, tsh_nreads++: the load *)
ReaderLoad(t) ==
  /\ t \in StompReaders
  /\ spc[t] = "load"
  /\ reg' = [reg EXCEPT ![t] = tsh_nreads]
  /\ spc' = [spc EXCEPT ![t] = "store"]
  /\ UNCHANGED <<replayVars, nwriters, nreaders, tsh_nreads, tsh_nwrites,
                 turns, tsh_write_lba_current, tsh_write_lba_wraparounds,
                 tsh_write_lba_lock, reportVars>>

(* line 238, tsh_nreads++: the store, and round the loop *)
ReaderStore(t) ==
  /\ t \in StompReaders
  /\ spc[t] = "store"
  /\ tsh_nreads' = CounterAdvance(tsh_nreads, reg[t])
  /\ LoopAgain(t, "io")
  /\ UNCHANGED <<replayVars, nwriters, nreaders, tsh_nwrites, reg,
                 tsh_write_lba_current, tsh_write_lba_wraparounds,
                 tsh_write_lba_lock, reportVars>>

(* tsh_write_lba_current + tsh_bufsz >= tsh_size *)
NearEnd(lba) == lba + tsh_bufsz >= stomp_size

(* lines 255-257: take tsh_write_lba_lock, which keeps the other writers
   out but not main's printf; take the current write LBA and store the
   advanced one *)
WriterNextLba(t) ==
  /\ t \in StompWriters
  /\ spc[t] = "lba"
  /\ tsh_write_lba_lock = 0
  /\ tsh_write_lba_lock' = t
  /\ tsh_write_lba_current' = tsh_write_lba_current + tsh_bufsz
  /\ spc' = [spc EXCEPT ![t] = "wrap"]
  /\ UNCHANGED <<replayVars, nwriters, nreaders, tsh_nreads, tsh_nwrites,
                 reg, turns, tsh_write_lba_wraparounds, reportVars>>

(* lines 258-260: near the end of the target the writer stores the
   initial LBA (line 259) and counts the wraparound (line 260). main reads
   both variables without the lock, and nothing orders the two stores for
   it: a build may emit them as written or the increment first. Each store
   is a step of its own and either may come first. *)

(* line 258, and the store of line 259 *)
WriterWrap(t) ==
  /\ t \in StompWriters
  /\ spc[t] \in {"wrap", "counted"}
  /\ IF spc[t] = "counted"
     THEN /\ tsh_write_lba_current' = tsh_write_lba_init
          /\ spc' = [spc EXCEPT ![t] = "unlock"]
     ELSE IF NearEnd(tsh_write_lba_current)
          THEN /\ tsh_write_lba_current' = tsh_write_lba_init
               /\ spc' = [spc EXCEPT ![t] = "wrap2"]
          ELSE /\ UNCHANGED tsh_write_lba_current
               /\ spc' = [spc EXCEPT ![t] = "unlock"]
  /\ UNCHANGED <<replayVars, nwriters, nreaders, tsh_nreads, tsh_nwrites,
                 reg, turns, tsh_write_lba_wraparounds, tsh_write_lba_lock,
                 reportVars>>

(* line 260, tsh_write_lba_wraparounds++: after the store of line 259, or
   before it while tsh_write_lba_current still holds the advanced LBA *)
WriterCountWrap(t) ==
  /\ t \in StompWriters
  /\ \/ /\ spc[t] = "wrap2"
        /\ spc' = [spc EXCEPT ![t] = "unlock"]
     \/ /\ spc[t] = "wrap"
        /\ NearEnd(tsh_write_lba_current)
        /\ spc' = [spc EXCEPT ![t] = "counted"]
  /\ tsh_write_lba_wraparounds' = tsh_write_lba_wraparounds + 1
  /\ UNCHANGED <<replayVars, nwriters, nreaders, tsh_nreads, tsh_nwrites,
                 reg, turns, tsh_write_lba_current, tsh_write_lba_lock,
                 reportVars>>

(* line 262: release tsh_write_lba_lock *)
WriterUnlock(t) ==
  /\ t \in StompWriters
  /\ spc[t] = "unlock"
  /\ tsh_write_lba_lock' = 0
  /\ spc' = [spc EXCEPT ![t] = "io"]
  /\ UNCHANGED <<replayVars, nwriters, nreaders, tsh_nreads, tsh_nwrites,
                 reg, turns, tsh_write_lba_current,
                 tsh_write_lba_wraparounds, reportVars>>

(* lines 264-270: pwrite, warn if it failed or was short *)
WriterIO(t) ==
  /\ t \in StompWriters
  /\ spc[t] = "io"
  /\ \E result \in IoResults : spc' = [spc EXCEPT ![t] = "load"]
  /\ UNCHANGED <<replayVars, nwriters, nreaders, tsh_nreads, tsh_nwrites,
                 reg, turns, tsh_write_lba_current,
                 tsh_write_lba_wraparounds, tsh_write_lba_lock, reportVars>>

(* line 272, tsh_nwrites++: the load *)
WriterLoad(t) ==
  /\ t \in StompWriters
  /\ spc[t] = "load"
  /\ reg' = [reg EXCEPT ![t] = tsh_nwrites]
  /\ spc' = [spc EXCEPT ![t] = "store"]
  /\ UNCHANGED <<replayVars, nwriters, nreaders, tsh_nreads, tsh_nwrites,
                 turns, tsh_write_lba_current, tsh_write_lba_wraparounds,
                 tsh_write_lba_lock, reportVars>>

(* line 272, tsh_nwrites++: the store, and round the loop *)
WriterStore(t) ==
  /\ t \in StompWriters
  /\ spc[t] = "store"
  /\ tsh_nwrites' = CounterAdvance(tsh_nwrites, reg[t])
  /\ LoopAgain(t, "lba")
  /\ UNCHANGED <<replayVars, nwriters, nreaders, tsh_nreads, reg,
                 tsh_write_lba_current, tsh_write_lba_wraparounds,
                 tsh_write_lba_lock, reportVars>>

(* the value of one of the shared counters, as a load finds it *)
CounterValue(f) ==
  CASE f = "nreads" -> tsh_nreads
    [] f = "nwrites" -> tsh_nwrites
    [] f = "wrlba" -> tsh_write_lba_current
    [] f = "wr" -> tsh_write_lba_wraparounds

(* lines 176-181: printf's arguments are loaded one by one, without a
   lock and in an order the language leaves open, while the threads run *)
ReportLoad(f) ==
  /\ nreports < MaxReports
  /\ f \in pending
  /\ loaded' = [loaded EXCEPT ![f] = CounterValue(f)]
  /\ pending' = pending \ {f}
  /\ UNCHANGED <<replayVars, nwriters, nreaders, spc, tsh_nreads,
                 tsh_nwrites, reg, turns, tsh_write_lba_current,
                 tsh_write_lba_wraparounds, tsh_write_lba_lock, nreports,
                 stats>>

(* lines 170-181: with every argument loaded the line is printed, and main
   sleeps until the next report; the model stops main after MaxReports
   lines *)
Report ==
  /\ pending = {}
  /\ stats' = loaded
  /\ nreports' = nreports + 1
  /\ loaded' = NoStats
  /\ pending' = ReportFields
  /\ UNCHANGED <<replayVars, nwriters, nreaders, spc, tsh_nreads,
                 tsh_nwrites, reg, turns, tsh_write_lba_current,
                 tsh_write_lba_wraparounds, tsh_write_lba_lock>>

NextStomp ==
  \/ \E t \in StompThreads : ReaderIO(t)
  \/ \E t \in StompThreads : ReaderLoad(t)
  \/ \E t \in StompThreads : ReaderStore(t)
  \/ \E t \in StompThreads : WriterNextLba(t)
  \/ \E t \in StompThreads : WriterWrap(t)
  \/ \E t \in StompThreads : WriterCountWrap(t)
  \/ \E t \in StompThreads : WriterUnlock(t)
  \/ \E t \in StompThreads : WriterIO(t)
  \/ \E t \in StompThreads : WriterLoad(t)
  \/ \E t \in StompThreads : WriterStore(t)
  \/ \E f \in ReportFields : ReportLoad(f)
  \/ Report

(* toshstomp alone: toshreplay's state stays as it was constructed *)
InitStompAlone ==
  /\ InitWith({<<>>}, {FALSE}, {1})
  /\ InitStomp(1..MaxStompWriters, 1..MaxStompReaders)
  /\ nwriters + nreaders <= MaxStompThreads

SpecStomp == InitStompAlone /\ [][NextStomp]_vars
(* ------------------------------------------------------------------ *)
(* Properties                                                         *)
(* ------------------------------------------------------------------ *)
Range(q) == {q[i] : i \in 1..Len(q)}
OpIds == 1..Len(ops)
InMailbox(o) == \E w \in Workers : tshw_op[w] = o
EverAssigned(o) == InMailbox(o) \/ o \in Range(completed)
AssignedCount == Cardinality({o \in OpIds : EverAssigned(o)})
DispatcherReturned == mpc \in {"dump", "load_done", "merge", "exited"}

(* every queued op was dispatched, started and completed with all its
   fields written, and no worker holds an operation *)
Drained ==
  /\ \A o \in OpIds :
       /\ o \in Range(started)
       /\ o \in Range(completed)
       /\ ops[o].worker \in Workers
       /\ ops[o].start # LLZero
       /\ ops[o].done # LLZero
  /\ \A w \in Workers :
       tshw_op[w] = 0 /\ wpc[w] \notin {"record", "io", "iodone", "done"}

(* C1: the merge reads the started and completed lists only once every
   queued operation has been dispatched, started and completed and no
   worker is still executing. *)
C1_ReportAfterDrain == mpc \in {"load_done", "merge"} => Drained

(* C2: every mailbox fill puts the next operation in queue order into one
   worker's mailbox, no operation is in two mailboxes or assigned again
   after it completed, and a dispatcher that returns has assigned all. *)
C2_DispatchInOrder ==
  /\ [][\A w \in Workers :
          (tshw_op'[w] # tshw_op[w] /\ tshw_op'[w] # 0) =>
            /\ tshw_op'[w] = AssignedCount + 1
            /\ \A v \in Workers \ {w} : tshw_op'[v] = tshw_op[v]]_vars
  /\ [](\A o \in OpIds :
          /\ Cardinality({w \in Workers : tshw_op[w] = o}) <= 1
          /\ ~(InMailbox(o) /\ o \in Range(completed)))
  /\ [](DispatcherReturned => \A o \in OpIds : EverAssigned(o))

C2_Witness ==
  /\ mpc = "dump"
  /\ Len(ops) >= 2
  /\ \A o \in OpIds : EverAssigned(o)

(* with one worker, the first operation ran over the second one's
   dispatch time: it started no later and was stamped done after it *)
TrulyOverlap ==
  /\ tsh_nworkers = 1
  /\ Len(ops) >= 2
  /\ 1 \in Range(completed)
  /\ LLLeq(ops[1].start, DispatchTime(2))
  /\ LLLess(DispatchTime(2), ops[1].done)

C3_OverlapIsFatal == TrulyOverlap => ~EverAssigned(2)

(* C3: when the dispatcher reaches an operation's dispatch moment (the
   spin of line 318 is over) and the idle chain is empty, every worker
   holding an operation, the process ends: that operation is never
   assigned, the dispatcher waiting for no worker; the dispatcher that
   finds the chain empty dies at once, the operation and those after it
   are never assigned and nothing is printed by tsh_dump; with one worker,
   a second operation that comes due while the first is in flight is never
   assigned, and a second operation that is assigned goes to that same
   worker, the first having completed; two operations that overlap in
   time, by their stamps, never both run on one worker. *)
C3_ExhaustionIsFatal ==
  /\ \A o \in 1..MaxFairLines :
       []((/\ mpc = "lock" /\ dop = o /\ tsh_workers = <<>>
           /\ \A w \in Workers : tshw_op[w] # 0) =>
            [](~EverAssigned(o)))
  /\ [][(mpc = "check" /\ tsh_workers = <<>> /\ mpc' # mpc) =>
          /\ mpc' = "fatal"
          /\ fatal' = "ran out of workers"
          /\ UNCHANGED <<dop, tshw_op>>]_vars
  /\ [][mpc = "fatal" => UNCHANGED vars]_vars
  /\ [](fatal = "ran out of workers" =>
          /\ out = <<>>
          /\ \A o \in OpIds : o >= dop => ~EverAssigned(o))
  /\ []((/\ tsh_nworkers = 1 /\ mpc = "lock" /\ dop = 2
         /\ tshw_op[1] = 1 /\ 1 \notin Range(completed)) =>
          [](~EverAssigned(2)))
  /\ [][(tsh_nworkers = 1 /\ mpc = "check" /\ dop = 2 /\ mpc' = "signal") =>
          dworker' = 1 /\ tshw_op'[1] = 2 /\ 1 \in Range(completed)]_vars
  /\ [](C3_OverlapIsFatal)

StartLines == SelectSeq(out, LAMBDA l : l.kind = "start")
DoneLines == SelectSeq(out, LAMBDA l : l.kind = "done")
NoDuplicates(q) == Cardinality(Range(q)) = Len(q)

(* both lists hold every queued op exactly once and nothing is running *)
ListsComplete ==
  /\ Drained
  /\ NoDuplicates(started)
  /\ NoDuplicates(completed)

(* what was printed is a prefix of each list, the cursors stand right
   after the printed prefixes, and a printed completion follows the
   printed start of its op *)
OutConsistent ==
  /\ Len(StartLines) <= Len(started)
  /\ Len(DoneLines) <= Len(completed)
  /\ \A k \in 1..Len(StartLines) : StartLines[k].op = started[k]
  /\ \A k \in 1..Len(DoneLines) : DoneLines[k].op = completed[k]
  /\ issued = IF Len(StartLines) < Len(started) THEN Len(StartLines) + 1 ELSE 0
  /\ done = IF Len(DoneLines) < Len(completed) THEN Len(DoneLines) + 1 ELSE 0
  /\ \A k \in 1..Len(out) :
       out[k].kind = "done" =>
         \E j \in 1..(k - 1) : out[j].kind = "start" /\ out[j].op = out[k].op

OutputComplete ==
  \A o \in OpIds :
    /\ Cardinality({k \in 1..Len(out) :
                      out[k].kind = "start" /\ out[k].op = o}) = 1
    /\ Cardinality({k \in 1..Len(out) :
                      out[k].kind = "done" /\ out[k].op = o}) = 1

(* the lists keep every queued op once each, whatever the workers do next *)
ListsFull ==
  /\ \A o \in OpIds : o \in Range(started) /\ o \in Range(completed)
  /\ NoDuplicates(started)
  /\ NoDuplicates(completed)

(* between the two loads the started cursor stands at the head and
   nothing is printed; from the second load on the output is consistent *)
MergeGood ==
  /\ ListsFull
  /\ mpc \in {"load_done", "merge", "exited"}
  /\ mpc = "load_done" =>
       out = <<>> /\ issued = (IF started = <<>> THEN 0 ELSE 1)
  /\ mpc # "load_done" => OutConsistent
  /\ mpc = "exited" => OutputComplete

(* C4: a merge that starts on lists holding every queued operation once
   each prints, by the time it ends, exactly one start line and exactly one
   completion line per operation: from such a start every step keeps the
   printed lines a prefix of both lists, and the loop ends only when both
   are printed in full (unless the process dies before the loop ends). *)
C4_MergeLosesNothing ==
  [][(/\ (mpc = "dump" /\ mpc' = "load_done" /\ ListsComplete) \/ MergeGood
      /\ mpc' # "fatal")
      => MergeGood']_vars

C4_Witness ==
  /\ mpc = "exited"
  /\ MergeGood
  /\ Len(ops) >= 2
  /\ Len(out) = 2 * Len(ops)

(* C5: the printed lines are in non-decreasing order of the time that
   selected them, and when the start at one cursor and the completion at
   the other have the same time the start is printed first. *)
C5_ReportMonotone ==
  /\ [](\A k \in 1..(Len(out) - 1) : LLLeq(out[k].time, out[k + 1].time))
  /\ [][(/\ mpc = "merge" /\ issued # 0 /\ done # 0
         /\ ops[started[issued]].start = ops[completed[done]].done
         /\ out' # out)
        => out'[Len(out')].kind = "start"]_vars

C5_Witness ==
  /\ Len(out) >= 3
  /\ \E k \in 1..(Len(out) - 1) :
       /\ out[k].kind = "start" /\ out[k + 1].kind = "done"
       /\ out[k].time = out[k + 1].time
  /\ \E k \in 1..(Len(out) - 1) : LLLess(out[k].time, out[k + 1].time)

(* C6: an operation on the completed list is on the started list with
   start_time <= completion_time; the completion time is written in the
   step that appends the operation to the completed list, which happens
   once per operation, and is never written again. *)
C6_StartBeforeDoneOnce ==
  /\ [](\A o \in Range(completed) :
          /\ o \in Range(started)
          /\ LLLeq(ops[o].start, ops[o].done))
  /\ [](NoDuplicates(started) /\ NoDuplicates(completed))
  /\ [](\A o \in OpIds :
          /\ o \notin Range(completed) => ops[o].done = LLZero
          /\ o \notin Range(started) => ops[o].start = LLZero)
  /\ [][\A o \in OpIds :
          /\ ops'[o].done # ops[o].done =>
               o \notin Range(completed) /\ completed' = Append(completed, o)
          /\ o \in Range(completed) =>
               ops'[o].done = ops[o].done /\ ops'[o].start = ops[o].start]_vars

C6_Witness ==
  /\ Len(completed) >= 2
  /\ \E o \in Range(completed) : LLLess(ops[o].start, ops[o].done)
  /\ \E o \in Range(completed) : ops[o].start = ops[o].done

(* C7: no operation's outstanding-reads or outstanding-writes snapshot
   taken at start exceeds the pool size tsh_nworkers. *)
C7_SnapshotsWithinPool ==
  \A o \in OpIds :
    /\ ops[o].outr <= tsh_nworkers
    /\ ops[o].outw <= tsh_nworkers

C7_Witness ==
  /\ tsh_nworkers >= 2
  /\ \E o \in Range(started) : ops[o].outr + ops[o].outw = tsh_nworkers - 1
  /\ tsh_readers + tsh_writers = tsh_nworkers

(* C8: a pread or pwrite that fails or transfers short does not end the
   process and does not touch the dispatcher; the worker then takes the
   lock, stamps the completion, appends the operation to the completed list, decrements the
   counter of its direction and rejoins the idle chain with an empty
   mailbox, without issuing the I/O again. *)
C8_IoFailureNotFatal ==
  /\ [](fatal # "I/O")
  /\ [][\A w \in Workers :
          (wpc[w] = "io" /\ wpc'[w] # "io") =>
            /\ wpc'[w] = "iodone"
            /\ UNCHANGED <<mpc, fatal, dop, dworker, tsh_workers>>]_vars
  /\ [][\A w \in Workers :
          (wpc[w] = "iodone" /\ nread[w] # "ok" /\ wpc'[w] # wpc[w]) =>
            /\ wpc'[w] = "done"
            /\ lock' = w
            /\ UNCHANGED <<mpc, fatal, dop, dworker, tsh_workers, tshw_op,
                           nread, ops, completed>>]_vars
  /\ [][\A w \in Workers :
          (wpc[w] = "done" /\ nread[w] # "ok" /\ wpc'[w] # wpc[w]) =>
            LET o == tshw_op[w]
            IN  /\ wpc'[w] = "waiting"
                /\ tshw_op'[w] = 0
                /\ tsh_workers' = <<w>> \o tsh_workers
                /\ completed' = Append(completed, o)
                /\ ops'[o].done = now' /\ ops'[o].done # LLZero
                /\ tsh_readers' = tsh_readers - (IF ops[o].read THEN 1 ELSE 0)
                /\ tsh_writers' = tsh_writers - (IF ops[o].read THEN 0 ELSE 1)
                /\ UNCHANGED <<mpc, fatal, dop, dworker>>]_vars

C8_Witness ==
  \E w \in Workers :
    /\ wpc[w] = "iodone"
    /\ nread[w] = "error"
    /\ tshw_op[w] = 1
    /\ mpc = "signal"
    /\ dop = 2
(* an integer is written at index i of the line, after optional blanks: an
   optional sign and at least one digit *)
NumeralAt(line, i) ==
  LET p == SkipSpace(line, i)
      q == IF CharAt(line, p) \in {"-", "+"} THEN p + 1 ELSE p
  IN  IsDigit(CharAt(line, q))

HasMarker(line) == strstr(line, TSH_TOK_IOSTART) # 0

FieldMissing(line, label) ==
  \/ strstr(line, label) = 0
  \/ ~NumeralAt(line, strstr(line, label) + Len(label))

(* a matching line that lacks the time offset, the direction, the block
   number or the size *)
ParseError(line) ==
  /\ HasMarker(line)
  /\ \/ ~NumeralAt(line, 1)
     \/ strstr(line, TSH_TOK_READ) = 0 /\ strstr(line, TSH_TOK_WRITE) = 0
     \/ FieldMissing(line, TSH_TOK_BLKNO)
     \/ FieldMissing(line, TSH_TOK_SIZE)

(* C9: once ingestion has read a matching line with a missing or malformed
   time offset, direction, block number or size, the run goes no further:
   no operation is ever put in a mailbox, no worker starts an operation,
   no I/O is issued and the dispatcher never returns. *)
C9_ParseErrorAbortsBeforeIO ==
  (\E k \in 1..lineno : ParseError(trace[k])) =>
    /\ ~DispatcherReturned
    /\ started = <<>>
    /\ \A w \in Workers :
       tshw_op[w] = 0 /\ wpc[w] \notin {"record", "io", "iodone", "done"}

(* the matching lines among those read that precede the first one whose
   scheduled time exceeds the cap *)
MatchingBeforeCap ==
  LET past == {k \in 1..lineno :
                 /\ HasMarker(trace[k])
                 /\ LLLess(tsh_cap, strtoll(trace[k], 1).val)}
  IN  Cardinality({k \in 1..lineno :
                     /\ HasMarker(trace[k])
                     /\ \A j \in past : k < j})

(* C10: after ingestion the queue holds as many operations as there are
   matching lines before the time cap is reached, the reads and writes of
   the summary add up to that number, and no operation scheduled past the
   cap is dispatched. *)
C10_QueueStopsAtCap ==
  /\ summary # <<>> =>
       /\ Len(ops) = MatchingBeforeCap
       /\ summary[2] + summary[3] = MatchingBeforeCap
  /\ \A o \in OpIds : PastCap(ops[o]) => ~EverAssigned(o)

(* C11: with -c, every queued operation lies within the target: its offset
   is not negative and offset + size does not exceed tsh_size; an
   operation that ended past the target was moved to tsh_size - size
   rounded down to a block boundary, queued and counted, and ingestion
   went on. *)
C11_ClampKeepsWithinTarget ==
  tsh_clamp =>
    /\ fatal # "offset exceeds size"
    /\ \A o \in OpIds :
         /\ LLLeq(LLZero, ops[o].offset)
         /\ LLLeq(LLSum(ops[o].offset, ops[o].size), LLOf(tsh_size))

(* C12: the two-line trace, with size the last field of each line, is
   ingested without error into a read at byte 0 and a write at byte 4096
   scheduled 1,000,000 ns apart, and each operation that has started
   without overlap has at-start snapshots of 0. *)
C12_TwoLineTrace ==
  (trace = <<LineEolR, LineEolW>> /\ mpc # "read_log") =>
    /\ fatal = "none"
    /\ Len(ops) = 2
    /\ ops[1].read /\ ops[1].offset = LLOf(0) /\ ops[1].size = LLOf(4096)
    /\ ~ops[2].read /\ ops[2].offset = LLOf(4096) /\ ops[2].size = LLOf(4096)
    /\ LLSum(ops[1].sched, LLOf(1000000)) = ops[2].sched
    /\ \A o \in Range(started) : ops[o].outr = 0 /\ ops[o].outw = 0

(* reads and writes that have completed and passed their counter's ++ *)
RECURSIVE SumTurns(_)
SumTurns(threads) ==
  IF threads = {} THEN 0
  ELSE LET t == CHOOSE x \in threads : TRUE
       IN  turns[t] + SumTurns(threads \ {t})

(* C13: under every interleaving of the reader and writer threads each
   completed operation raises its counter by exactly one: tsh_nreads is
   the number of reads that have completed and been counted, tsh_nwrites
   the number of such writes. *)
C13_CountersCountEveryOp ==
  /\ tsh_nreads = SumTurns(StompReaders)
  /\ tsh_nwrites = SumTurns(StompWriters)

(* a slot holds an assigned operation from the mailbox fill until the
   worker has recorded the completion and cleared the mailbox *)
Busy(w) == tshw_op[w] # 0
OnChain(w) == w \in Range(tsh_workers)

(* C14: a worker slot is on the idle chain if and only if it is not
   executing an operation, and never twice; stated for the states in which
   the dispatcher holds the lock and is about to look at the chain, which
   are among the reachable states the claim speaks of. *)
C14_IdleIffNotBusy ==
  mpc = "check" =>
    /\ NoDuplicates(tsh_workers)
    /\ \A w \in Workers : OnChain(w) <=> ~Busy(w)

(* C15: the dispatcher dies of "ran out of workers" only when every one of
   the tsh_nworkers workers holds an assigned operation that has not
   completed. *)
C15_ExhaustedOnlyWhenAllBusy ==
  fatal = "ran out of workers" =>
    \A w \in Workers : Busy(w) /\ tshw_op[w] \notin Range(completed)

OwnReads(o) == IF ops[o].read THEN 1 ELSE 0
OwnWrites(o) == IF ops[o].read THEN 0 ELSE 1

(* at completion: snapshot both counters, then lower the own one *)
DoneSnapshotThenDecrement ==
  \A o \in OpIds :
    completed' = Append(completed, o) =>
      /\ ops'[o].doner = tsh_readers
      /\ ops'[o].donew = tsh_writers
      /\ tsh_readers' = tsh_readers - OwnReads(o)
      /\ tsh_writers' = tsh_writers - OwnWrites(o)
      /\ IF ops[o].read THEN ops'[o].doner >= 1 ELSE ops'[o].donew >= 1

(* C16 as stated: on assignment the worker raises the counter of the
   operation's direction and then snapshots both counters, so the at-start
   snapshot of the own direction counts the operation itself; at
   completion it snapshots both counters before lowering its own. *)
C16_IncrementThenSnapshot ==
  /\ [][\A o \in OpIds :
          started' = Append(started, o) =>
            /\ tsh_readers' = tsh_readers + OwnReads(o)
            /\ tsh_writers' = tsh_writers + OwnWrites(o)
            /\ ops'[o].outr = tsh_readers'
            /\ ops'[o].outw = tsh_writers']_vars
  /\ [][DoneSnapshotThenDecrement]_vars

(* C16, amended: on assignment the worker snapshots both counters and
   then raises the counter of the operation's direction, so the at-start
   snapshot does not count the operation itself; at completion it
   snapshots both counters before lowering its own, so the at-completion
   snapshot does count it. *)
C16_SnapshotThenIncrement ==
  /\ [][\A o \in OpIds :
          started' = Append(started, o) =>
            /\ ops'[o].outr = tsh_readers
            /\ ops'[o].outw = tsh_writers
            /\ tsh_readers' = tsh_readers + OwnReads(o)
            /\ tsh_writers' = tsh_writers + OwnWrites(o)]_vars
  /\ [][DoneSnapshotThenDecrement]_vars

C16_Witness ==
  /\ Len(completed) >= 2
  /\ \E o \in Range(completed) :
       ops[o].read /\ ops[o].outr = 0 /\ ops[o].doner = 1
  /\ \E o \in Range(completed) :
       ~ops[o].read /\ ops[o].outr = 1 /\ ops[o].outw = 0
         /\ ops[o].doner = 1 /\ ops[o].donew = 1

StartTimes == [k \in 1..Len(started) |-> ops[started[k]].start]
DoneTimes == [k \in 1..Len(completed) |-> ops[completed[k]].done]
NonDecreasing(times) ==
  \A k \in 1..(Len(times) - 1) : LLLeq(times[k], times[k + 1])
IsPrefix(p, q) ==
  Len(p) <= Len(q) /\ \A k \in 1..Len(p) : p[k] = q[k]

(* C17: in every reachable state the started list is in non-decreasing
   order of start time and the completed list in non-decreasing order of
   completion time, and a step changes either list only by appending one
   operation, stamped in that same step with the time the clock then
   shows. *)
C17_ListsTimeOrdered ==
  /\ [](NonDecreasing(StartTimes) /\ NonDecreasing(DoneTimes))
  /\ [][/\ IsPrefix(started, started') /\ Len(started') <= Len(started) + 1
         /\ IsPrefix(completed, completed')
         /\ Len(completed') <= Len(completed) + 1
         /\ (started' # started =>
               ops'[started'[Len(started')]].start = now')
         /\ (completed' # completed =>
               ops'[completed'[Len(completed')]].done = now')]_vars

C17_Witness ==
  /\ Len(started) = 3 /\ Len(completed) = 3
  /\ started # completed
  /\ LLLess(StartTimes[1], StartTimes[3])
  /\ \E k \in 1..2 : DoneTimes[k] = DoneTimes[k + 1]

(* the threads that hold no lock by where they are: a worker from its
   unlock of line 277 to its lock of line 286 *)
OutsideLock(w) == wpc[w] \in {"record", "io", "iodone"}

(* C18: a worker inside its pread or pwrite, or anywhere between its
   unlock and its next lock, does not hold tsh_worker_lock; whoever holds
   the lock is in one of the bookkeeping sections, so the dispatcher and
   the other workers can take it while I/Os are in flight; the I/O is
   issued by a worker that does not hold the lock, in a step that neither
   takes nor releases it and leaves the dispatcher where it is. *)
C18_NoLockAcrossIO ==
  /\ [](\A w \in Workers : OutsideLock(w) => lock # w)
  /\ [](/\ lock \in Workers => wpc[lock] \in {"joining", "start", "done"}
        /\ lock = MainThread => mpc \in {"check", "fatal"})
  /\ [][\A w \in Workers :
          (nread'[w] # nread[w] /\ nread'[w] # "none") =>
            /\ wpc[w] = "io"
            /\ lock # w /\ lock' = lock
            /\ UNCHANGED <<mpc, dop, dworker, tsh_workers>>]_vars

(* both workers are in their I/O and the dispatcher has taken the lock *)
C18_Witness ==
  /\ tsh_nworkers = 2
  /\ \A w \in Workers : wpc[w] = "io"
  /\ mpc = "check"
  /\ lock = MainThread
  /\ tsh_workers = <<>>

(* C19: a worker goes past its wait only with the operation the
   dispatcher put in its own mailbox: no worker proceeds with an empty
   mailbox, a worker that executes holds an operation that is in no other
   mailbox, and the worker recorded in an operation is the one whose
   mailbox holds it. *)
C19_NoMisattribution ==
  /\ fatal # "SIGSEGV"
  /\ \A w \in Workers :
       /\ wpc[w] \in {"record", "io", "iodone", "done"} => Busy(w)
       /\ Busy(w) =>
            /\ \A v \in Workers \ {w} : tshw_op[v] # tshw_op[w]
            /\ ops[tshw_op[w]].worker \in {0, w}
  /\ \A o \in Range(completed) : ops[o].worker \in Workers

(* C20: under fair scheduling, with every I/O call returning, an operation
   placed in a mailbox is eventually appended to the completed list, its
   worker rejoining the idle chain in the same step -- unless the process
   has died of a fatal error in between. *)
C20_DispatchedCompletes ==
  \A o \in 1..MaxFairLines :
    InMailbox(o) ~> (o \in Range(completed) \/ mpc = "fatal")
====
